---- MODULE Spec2Model ----
(***************************************************************************)
(* Model of ssh.py: main() builds an image description, resolves mounts    *)
(* and volumes, creates one Modal sandbox, starts sshd in it, and then     *)
(* supervises it in a 30 second polling loop until the sandbox exits, the  *)
(* local timeout expires or the operator interrupts.                       *)
(*                                                                         *)
(* The platform (modal.Sandbox) is the environment: every call on it either*)
(* returns or raises, and the sandbox may exit on its own at any moment.   *)
(* Time is wall-clock seconds; strings that the code only passes around    *)
(* are TLA+ strings, strings that the code parses (mount specs) are        *)
(* sequences of one-character strings.                                     *)
(***************************************************************************)
EXTENDS Integers, Sequences, FiniteSets, TLC

VARIABLES
    pc,                   \* position of main()
    args,                 \* the invocation options of main()
    runtime_image,        \* sequence of image-build steps
    mounts_list,          \* sequence of [local, remote_path]
    volume_config,        \* mapping mount path -> volume handle
    sb_kwargs,            \* the keyword arguments of Sandbox.create
    sb,                   \* remote sandbox: uncreated/running/terminating/exited
    clock,                \* wall clock, seconds
    start_time,
    timeout_seconds,      \* None or seconds
    pbar,                 \* None or the tqdm bar
    last_progress_update,
    current_time,
    elapsed,
    elapsed_time,         \* the formatted times of lines 171-172 and 213-214,
    remaining_time,       \* "" while not yet assigned
    pending,              \* exception travelling through the finally block
    calls,                \* platform calls made so far, polls excepted
    lastCall,             \* outcome of the most recent platform call
    hist                  \* observations of the run (what was printed, seen)

vars == <<pc, args, runtime_image, mounts_list, volume_config, sb_kwargs, sb,
          clock, start_time, timeout_seconds, pbar, last_progress_update,
          current_time, elapsed, elapsed_time, remaining_time, pending, calls,
          lastCall, hist>>

(***************************************************************************)
(* Bounds of the model.                                                    *)
(***************************************************************************)
MaxTimeout == 2          \* largest timeout option, hours
MaxClock == 7260         \* the wall clock is followed up to this second
MaxCpu == 2
MaxMemory == 2
MaxSeconds == 3700       \* format_time is followed for every second up to this
SlowSleep == 120         \* a delayed sleep lasts SlowSleep * 30 seconds

(***************************************************************************)
(* Program constants.                                                      *)
(***************************************************************************)
SecondsPerHour == 3600   \* 60 * 60
SleepSeconds == 30
ProgressInterval == 600
SshPort == 22
MiBPerGB == 1024

None == [none |-> TRUE]
Some(v) == [none |-> FALSE, val |-> v]
IsNone(x) == x.none

(***************************************************************************)
(* Strings the code parses: sequences of characters.                       *)
(***************************************************************************)
RECURSIVE Str(_)
Str(cs) == IF cs = <<>> THEN "" ELSE Head(cs) \o Str(Tail(cs))

RECURSIVE IndexOf(_, _, _)
\* position of the first c in cs at or after i, 0 when there is none
IndexOf(cs, c, i) ==
    IF i > Len(cs) THEN 0
    ELSE IF cs[i] = c THEN i ELSE IndexOf(cs, c, i + 1)

\* spec.split(":", 1)
SplitFirst(cs, c) ==
    LET i == IndexOf(cs, c, 1)
    IN  <<SubSeq(cs, 1, i - 1), SubSeq(cs, i + 1, Len(cs))>>

RECURSIVE SplitAll(_, _)
\* cs.split(c)
SplitAll(cs, c) ==
    LET i == IndexOf(cs, c, 1)
    IN  IF i = 0 THEN <<cs>>
        ELSE <<SubSeq(cs, 1, i - 1)>> \o SplitAll(SubSeq(cs, i + 1, Len(cs)), c)

RECURSIVE Join(_, _)
Join(parts, c) ==
    IF parts = <<>> THEN <<>>
    ELSE IF Len(parts) = 1 THEN parts[1]
    ELSE parts[1] \o <<c>> \o Join(Tail(parts), c)

RECURSIVE DropDots(_, _)
\* pathlib drops empty and "." components
DropDots(parts, i) ==
    IF i > Len(parts) THEN <<>>
    ELSE IF parts[i] = <<>> \/ parts[i] = <<".">> THEN DropDots(parts, i + 1)
    ELSE <<parts[i]>> \o DropDots(parts, i + 1)

\* pathlib.Path(s): [root, parts]
PathOf(cs) ==
    [root  |-> cs # <<>> /\ cs[1] = "/",
     parts |-> DropDots(SplitAll(cs, "/"), 1)]

HomeDir == [root |-> TRUE, parts |-> << <<"h">> >>]

\* Path.expanduser(): a leading "~" component becomes the home directory
ExpandUser(p) ==
    IF ~p.root /\ p.parts # <<>> /\ p.parts[1] = <<"~">>
    THEN [root |-> TRUE, parts |-> HomeDir.parts \o Tail(p.parts)]
    ELSE p

\* Path.name: the final component, "" when there is none
PathName(p) == IF p.parts = <<>> THEN <<>> ELSE p.parts[Len(p.parts)]

\* str(Path)
PathStr(p) ==
    IF p.parts = <<>> THEN (IF p.root THEN <<"/">> ELSE <<".">>)
    ELSE (IF p.root THEN <<"/">> ELSE <<>>) \o Join(p.parts, "/")

(***************************************************************************)
(* Option values.  A repeatable option is None, one string or a list.      *)
(***************************************************************************)
OptNone == [kind |-> "none", val |-> <<>>]
OptStr(s) == [kind |-> "str", val |-> <<s>>]
OptList(l) == [kind |-> "list", val |-> l]

\* `if mount:` / `if volume:` - None, "" and [] are falsy
OptTruthy(o, empty) ==
    CASE o.kind = "none" -> FALSE
      [] o.kind = "str"  -> o.val[1] # empty
      [] OTHER           -> o.val # <<>>

\* `[x] if isinstance(x, str) else x`
OptAsList(o) == o.val

(***************************************************************************)
(* Image assembly, lines 47-82.                                            *)
(***************************************************************************)
\* `python_version=add_python if add_python else None`
PythonVersion(add_python) == IF add_python # "" THEN <<add_python>> ELSE <<>>

\* lines 48-60: the registry image, or debian_slim when none is given or
\* when from_registry raised
BaseImage(image, add_python, registry_ok) ==
    IF image # "" /\ registry_ok
    THEN <<[op |-> "from_registry", arg |-> <<image>>]>>
    ELSE <<[op |-> "debian_slim", arg |-> PythonVersion(add_python)]>>

\* lines 62-73
SshSteps ==
    <<[op |-> "apt_install", arg |-> <<"openssh-server">>],
      [op |-> "run_commands", arg |-> <<"mkdir -p /run/sshd /root/.ssh",
                                        "chmod 700 /root/.ssh",
                                        "PasswordAuthentication no",
                                        "PermitRootLogin prohibit-password">>],
      [op |-> "add_local_file", arg |-> <<"/root/.ssh/authorized_keys">>],
      [op |-> "run_commands", arg |-> <<"chmod 600 /root/.ssh/authorized_keys">>]>>

\* lines 76-82: best-effort python install on a registry image
PythonSteps(image, add_python, install_ok) ==
    IF image # "" /\ add_python # "" /\ install_ok
    THEN <<[op |-> "apt_install", arg |-> <<"python" \o add_python, "python3-pip">>]>>
    ELSE <<>>

(***************************************************************************)
(* Mount and volume resolution, lines 84-119.                              *)
(***************************************************************************)
\* a mount that always takes the default remote path
MountOfDefaultRemote(spec) ==
    LET local == IF IndexOf(spec, ":", 1) # 0 THEN SplitFirst(spec, ":")[1] ELSE spec
    IN  [local |-> PathStr(ExpandUser(PathOf(local))),
         remote_path |-> <<"/", "m", "o", "u", "n", "t", "s", "/">>
                         \o PathName(ExpandUser(PathOf(local)))]

\* lines 91-101: one mount spec
MountOf(spec) ==
    IF IndexOf(spec, ":", 1) # 0
    THEN LET lr == SplitFirst(spec, ":")
         IN  [local |-> PathStr(ExpandUser(PathOf(lr[1]))), remote_path |-> lr[2]]
    ELSE [local |-> PathStr(ExpandUser(PathOf(spec))),
          remote_path |-> <<"/", "m", "o", "u", "n", "t", "s", "/">>
                          \o PathName(ExpandUser(PathOf(spec)))]

RECURSIVE MountLoop(_, _)
\* lines 88-101
MountLoop(mount_list, i) ==
    IF i > Len(mount_list) THEN <<>>
    ELSE IF mount_list[i] = <<>> THEN MountLoop(mount_list, i + 1)
    ELSE <<MountOf(mount_list[i])>> \o MountLoop(mount_list, i + 1)

\* lines 85-101
MountsList(mount) ==
    IF OptTruthy(mount, <<>>) THEN MountLoop(OptAsList(mount), 1) ELSE <<>>

\* modal.Volume.from_name(vol_name, create_if_missing=True), the i-th lookup
VolumeFromName(vol_name, i) == [name |-> vol_name, lookup |-> i]

EmptyDict == [k \in {} |-> 0]

RECURSIVE VolumeLoopFirstWins(_, _, _)
\* a loop that keeps the handle of the first of two equal names
VolumeLoopFirstWins(volume_list, i, cfg) ==
    IF i > Len(volume_list) THEN cfg
    ELSE IF volume_list[i] = "" THEN VolumeLoopFirstWins(volume_list, i + 1, cfg)
    ELSE VolumeLoopFirstWins(volume_list, i + 1,
                    cfg @@
                    (("/vol/" \o volume_list[i]) :> VolumeFromName(volume_list[i], i)))

RECURSIVE VolumeLoop(_, _, _)
\* lines 112-119
VolumeLoop(volume_list, i, cfg) ==
    IF i > Len(volume_list) THEN cfg
    ELSE IF volume_list[i] = "" THEN VolumeLoop(volume_list, i + 1, cfg)
    ELSE VolumeLoop(volume_list, i + 1,
                    (("/vol/" \o volume_list[i]) :> VolumeFromName(volume_list[i], i))
                    @@ cfg)

\* lines 104-119
VolumeConfig(volume) ==
    IF OptTruthy(volume, "") THEN VolumeLoop(OptAsList(volume), 1, EmptyDict)
    ELSE EmptyDict

(***************************************************************************)
(* The creation request, lines 126-144.                                    *)
(***************************************************************************)
\* `if timeout and timeout > 0`
TimeoutSet(timeout) == timeout # 0 /\ timeout > 0

\* a request that always carries the timeout, zero when unset
KwTimeoutAlways(a) == "timeout" :> a.timeout * 60 * 60

KwTimeout(a) ==
    IF TimeoutSet(a.timeout) THEN "timeout" :> a.timeout * 60 * 60 ELSE EmptyDict
KwGpu(a) == IF a.gpu # "" THEN "gpu" :> a.gpu ELSE EmptyDict
KwVolumes(cfg) == IF DOMAIN cfg # {} THEN "volumes" :> cfg ELSE EmptyDict
KwCpu(a) ==
    IF a.cpu # 0 /\ a.cpu > 0 THEN "cpu" :> [float |-> a.cpu] ELSE EmptyDict
KwMemory(a) ==
    IF a.memory # 0 /\ a.memory > 0 THEN "memory" :> a.memory * MiBPerGB
    ELSE EmptyDict
KwMounts(ml) == IF ml # <<>> THEN "mounts" :> ml ELSE EmptyDict

SbKwargs(a, img, cfg, ml) ==
    KwMounts(ml) @@ KwMemory(a) @@ KwCpu(a) @@ KwVolumes(cfg) @@ KwGpu(a)
    @@ KwTimeout(a)
    @@ [app |-> "app", image |-> img, unencrypted_ports |-> <<SshPort>>]

(***************************************************************************)
(* The supervisory loop's pure parts, lines 158-219.                       *)
(***************************************************************************)
\* a watchdog that falls back to one hour when no timeout is given
TimeoutSecondsDefaulted(timeout) ==
    IF timeout # 0 /\ timeout > 0 THEN Some(timeout * 60 * 60) ELSE Some(60 * 60)

\* line 159
TimeoutSeconds(timeout) ==
    IF TimeoutSet(timeout) THEN Some(timeout * 60 * 60) ELSE None

\* `if timeout_seconds:` - None and 0 are falsy
Truthy(x) == ~IsNone(x) /\ x.val # 0

\* `if pbar:` - None is falsy, a tqdm bar is truthy when its total is positive
PbarTruthy(bar) == ~IsNone(bar) /\ bar.val.total > 0

\* a watchdog that compares with > instead of >=
ExpiredStrict(e, ts) == e > ts.val

\* line 198
Expired(e, ts) == e >= ts.val

\* a progress condition of one minute instead of ten
ProgressDueEveryMinute(now, last) == now - last >= 60

\* line 209
ProgressDue(now, last) == now - last >= ProgressInterval

\* f"{n:02d}"
Pad2(n) == IF n >= 0 /\ n < 10 THEN "0" \o ToString(n) ELSE ToString(n)

\* a format_time whose minutes are not reduced modulo the hour
format_time_total_minutes(seconds) ==
    Pad2(seconds \div SecondsPerHour) \o ":" \o Pad2(seconds \div 60)

\* lines 161-165
format_time(seconds) ==
    Pad2(seconds \div SecondsPerHour) \o ":" \o Pad2((seconds % SecondsPerHour) \div 60)

\* lines 175, 217
Description(timeout, e, remaining) ==
    "SSH session (" \o ToString(timeout) \o "h timeout) - Elapsed: "
    \o format_time(e) \o ", Remaining: " \o format_time(remaining)

\* lines 170-178
NewPbar(timeout, ts) ==
    Some([total |-> ts.val \div 60, n |-> 0, refreshes |-> 0, closed |-> FALSE,
          desc |-> Description(timeout, 0, ts.val)])

\* lines 211-218
RefreshedPbar(bar, timeout, e, ts) ==
    Some([bar.val EXCEPT !.n = e \div 60, !.refreshes = @ + 1,
                         !.desc = Description(timeout, e, ts.val - e)])

(***************************************************************************)
(* The platform.                                                           *)
(***************************************************************************)
\* sb.poll(): None while the sandbox has not finished
PollResult(state) == IF state = "exited" THEN Some(0) ELSE None

\* sb.terminate() accepted: a running sandbox starts to shut down
AfterTerminate(state) == IF state = "running" THEN "terminating" ELSE state

Call(op, site, ok) == [op |-> op, site |-> site, ok |-> ok]

WaitOp == "wait(raise_on_termination=False)"

(***************************************************************************)
(* Invocations.                                                            *)
(***************************************************************************)
Defaults ==
    [cpu |-> 0, memory |-> 0, gpu |-> "", timeout |-> 0, image |-> "",
     add_python |-> "", mount |-> OptNone, volume |-> OptNone]

MountSpecs ==
    {OptNone, OptStr(<<>>), OptStr(<<"a", ":", "/", "r">>),
     OptList(<<>>),
     OptList(<< <<"~", "/", "d">>, <<>>, <<"x", ":", "y", ":", "z">> >>),
     OptList(<< <<"a", "/", "b", "/">>, <<"a", "/", "b", "/">> >>),
     OptList(<< <<"~">>, <<".", "/", "c", ":">>, <<"/">>, <<".">> >>)}

VolumeSpecs ==
    {OptNone, OptStr(""), OptStr("data"), OptList(<<>>), OptList(<<"">>),
     OptList(<<"data", "models">>), OptList(<<"data", "", "data">>)}

\* every combination of options, for the launch (lines 44-155)
LaunchArgs ==
    [cpu : -1 .. MaxCpu, memory : -1 .. MaxMemory, gpu : {"", "H100"},
     timeout : -1 .. MaxTimeout, image : {"", "ubuntu:22.04"},
     add_python : {"", "3.11"}, mount : MountSpecs, volume : VolumeSpecs]

\* the invocations whose whole run is followed: every timeout with the
\* other options unset, and gpu="H100", volume="data", timeout=1
RunArgs ==
    {[Defaults EXCEPT !.timeout = t] : t \in 0 .. MaxTimeout}
    \cup {[Defaults EXCEPT !.gpu = "H100", !.volume = OptStr("data"), !.timeout = 1]}

NoHist ==
    [interrupted |-> FALSE, sawExited |-> FALSE, pollFailed |-> FALSE,
     cleanupRan |-> FALSE, finalPoll |-> "none", warnings |-> {}]

InitWith(inputs) ==
    /\ args \in inputs
    /\ pc = "start"
    /\ runtime_image = <<>>
    /\ mounts_list = <<>>
    /\ volume_config = EmptyDict
    /\ sb_kwargs = EmptyDict
    /\ sb = "uncreated"
    /\ clock = 0
    /\ start_time = 0
    /\ timeout_seconds = None
    /\ pbar = None
    /\ last_progress_update = 0
    /\ current_time = 0
    /\ elapsed = 0
    /\ elapsed_time = ""
    /\ remaining_time = ""
    /\ pending = "none"
    /\ calls = <<>>
    /\ lastCall = "none"
    /\ hist = NoHist

Init == InitWith(RunArgs)

InitLaunch == InitWith(LaunchArgs)

shownVars == <<elapsed_time, remaining_time>>
loopVars == <<clock, start_time, timeout_seconds, pbar, last_progress_update,
              current_time, elapsed, shownVars>>
buildVars == <<args, runtime_image, mounts_list, volume_config, sb_kwargs>>

(***************************************************************************)
(* The launch, lines 44-155.                                               *)
(***************************************************************************)
\* lines 48-82; from_registry and the python install may fail and are absorbed
BuildImage ==
    /\ pc = "start"
    /\ \E registry_ok, install_ok \in BOOLEAN :
         runtime_image' = BaseImage(args.image, args.add_python, registry_ok)
                          \o SshSteps
                          \o PythonSteps(args.image, args.add_python, install_ok)
    /\ pc' = "mounts"
    /\ UNCHANGED <<args, mounts_list, volume_config, sb_kwargs, sb, loopVars,
                   pending, calls, lastCall, hist>>

\* line 71: the public key file is missing
BuildImageFails ==
    /\ pc = "start"
    /\ pc' = "raised"
    /\ pending' = "add_local_file"
    /\ UNCHANGED <<buildVars, sb, loopVars, calls, lastCall, hist>>

\* lines 85-101
ProcessMounts ==
    /\ pc = "mounts"
    /\ mounts_list' = MountsList(args.mount)
    /\ pc' = "volumes"
    /\ UNCHANGED <<args, runtime_image, volume_config, sb_kwargs, sb, loopVars,
                   pending, calls, lastCall, hist>>

\* lines 104-119
ProcessVolumes ==
    /\ pc = "volumes"
    /\ volume_config' = VolumeConfig(args.volume)
    /\ pc' = "kwargs"
    /\ UNCHANGED <<args, runtime_image, mounts_list, sb_kwargs, sb, loopVars,
                   pending, calls, lastCall, hist>>

\* lines 126-144
BuildKwargs ==
    /\ pc = "kwargs"
    /\ sb_kwargs' = SbKwargs(args, runtime_image, volume_config, mounts_list)
    /\ pc' = "create"
    /\ UNCHANGED <<args, runtime_image, mounts_list, volume_config, sb, loopVars,
                   pending, calls, lastCall, hist>>

\* line 146
CreateSandbox ==
    /\ pc = "create"
    /\ sb' = "running"
    /\ calls' = Append(calls, Call("create", "launch", TRUE))
    /\ lastCall' = "create"
    /\ pc' = "exec"
    /\ UNCHANGED <<buildVars, loopVars, pending, hist>>

\* a creation failure that is passed over
CreateFailsSwallowed ==
    /\ pc = "create"
    /\ calls' = Append(calls, Call("create", "launch", FALSE))
    /\ lastCall' = "create_raised"
    /\ pc' = "exec"
    /\ UNCHANGED <<buildVars, sb, loopVars, pending, hist>>

\* line 146 raises: nothing was created
CreateFails ==
    /\ pc = "create"
    /\ calls' = Append(calls, Call("create", "launch", FALSE))
    /\ lastCall' = "create_raised"
    /\ pending' = "create"
    /\ pc' = "raised"
    /\ UNCHANGED <<buildVars, sb, loopVars, hist>>

\* line 148
ExecSshd ==
    /\ pc = "exec"
    /\ calls' = Append(calls, Call("exec", "launch", TRUE))
    /\ lastCall' = "exec"
    /\ pc' = "tunnels"
    /\ UNCHANGED <<buildVars, sb, loopVars, pending, hist>>

\* line 148 raises, outside any try
ExecFails ==
    /\ pc = "exec"
    /\ calls' = Append(calls, Call("exec", "launch", FALSE))
    /\ lastCall' = "exec_raised"
    /\ pending' = "exec"
    /\ pc' = "raised"
    /\ UNCHANGED <<buildVars, sb, loopVars, hist>>

\* lines 149-151
ResolveTunnel ==
    /\ pc = "tunnels"
    /\ calls' = Append(calls, Call("tunnels", "launch", TRUE))
    /\ lastCall' = "tunnels"
    /\ pc' = "ls"
    /\ UNCHANGED <<buildVars, sb, loopVars, pending, hist>>

\* line 149 raises (or has no port 22), outside any try
ResolveTunnelFails ==
    /\ pc = "tunnels"
    /\ calls' = Append(calls, Call("tunnels", "launch", FALSE))
    /\ lastCall' = "tunnels_raised"
    /\ pending' = "tunnels"
    /\ pc' = "raised"
    /\ UNCHANGED <<buildVars, sb, loopVars, hist>>

\* lines 152-155: the local ls; an exception is passed over
LocalLs ==
    /\ pc = "ls"
    /\ pc' = "init_loop"
    /\ UNCHANGED <<buildVars, sb, loopVars, pending, calls, lastCall, hist>>

NextLaunch ==
    \/ BuildImage \/ BuildImageFails \/ ProcessMounts \/ ProcessVolumes
    \/ BuildKwargs \/ CreateSandbox \/ CreateFails \/ ExecSshd \/ ExecFails
    \/ ResolveTunnel \/ ResolveTunnelFails \/ LocalLs

SpecLaunch == InitLaunch /\ [][NextLaunch]_vars

(***************************************************************************)
(* The supervisory loop, lines 158-245.                                    *)
(***************************************************************************)
\* lines 158-179
InitLoop ==
    /\ pc = "init_loop"
    /\ start_time' = clock
    /\ timeout_seconds' = TimeoutSeconds(args.timeout)
    /\ IF Truthy(TimeoutSeconds(args.timeout))
       THEN /\ elapsed_time' = format_time(0)
            /\ remaining_time' = format_time(TimeoutSeconds(args.timeout).val)
            /\ pbar' = NewPbar(args.timeout, TimeoutSeconds(args.timeout))
            /\ last_progress_update' = clock
       ELSE UNCHANGED <<pbar, last_progress_update, shownVars>>
    /\ pc' = "loop_top"
    /\ UNCHANGED <<buildVars, sb, clock, current_time, elapsed, pending, calls,
                   lastCall, hist>>

\* lines 183-184
LoopTop ==
    /\ pc = "loop_top"
    /\ current_time' = clock
    /\ elapsed' = clock - start_time
    /\ pc' = "poll"
    /\ UNCHANGED <<buildVars, sb, clock, start_time, timeout_seconds, pbar,
                   last_progress_update, shownVars, pending, calls, lastCall,
                   hist>>

\* line 188: sb.poll() returns
Poll ==
    /\ pc = "poll"
    /\ IF IsNone(PollResult(sb))
       THEN /\ lastCall' = "poll_none"
            /\ pc' = "check_timeout"
            /\ UNCHANGED hist
       ELSE /\ lastCall' = "poll_exited"
            /\ pc' = "poll_exited"
            /\ hist' = [hist EXCEPT !.sawExited = TRUE]
    /\ UNCHANGED <<buildVars, sb, loopVars, pending, calls>>

\* a loop that passes over a failed liveness check and carries on
PollFailsIgnored ==
    /\ pc = "poll"
    /\ lastCall' = "poll_raised"
    /\ hist' = [hist EXCEPT !.pollFailed = TRUE]
    /\ pc' = "check_timeout"
    /\ UNCHANGED <<buildVars, sb, loopVars, pending, calls>>

\* lines 188, 191: sb.poll() raises
PollFails ==
    /\ pc = "poll"
    /\ lastCall' = "poll_raised"
    /\ hist' = [hist EXCEPT !.pollFailed = TRUE]
    /\ pc' = "poll_lost"
    /\ UNCHANGED <<buildVars, sb, loopVars, pending, calls>>

\* a loop whose break statements are missing
BreakMissing ==
    /\ pc \in {"poll_exited", "poll_lost", "tmo_done"}
    /\ pc' = "sleep"
    /\ UNCHANGED <<buildVars, sb, loopVars, pending, calls, lastCall, hist>>

\* lines 189-190 and 193-194: print and break
Break ==
    /\ pc \in {"poll_exited", "poll_lost", "tmo_done"}
    /\ pc' = "finally"
    /\ UNCHANGED <<buildVars, sb, loopVars, pending, calls, lastCall, hist>>

\* a loop that looks at the progress condition before the timeout
CheckTimeoutProgressFirst ==
    /\ pc = "check_timeout"
    /\ IF Truthy(timeout_seconds)
       THEN IF ProgressDue(current_time, last_progress_update)
            THEN pc' = "progress"
            ELSE IF Expired(elapsed, timeout_seconds)
                 THEN pc' = "tmo_terminate"
                 ELSE pc' = "sleep"
       ELSE pc' = "sleep"
    /\ UNCHANGED <<buildVars, sb, loopVars, pending, calls, lastCall, hist>>

\* lines 197-198 and 209
CheckTimeout ==
    /\ pc = "check_timeout"
    /\ IF Truthy(timeout_seconds)
       THEN IF Expired(elapsed, timeout_seconds)
            THEN pc' = "tmo_terminate"
            ELSE IF ProgressDue(current_time, last_progress_update)
                 THEN pc' = "progress"
                 ELSE pc' = "sleep"
       ELSE pc' = "sleep"
    /\ UNCHANGED <<buildVars, sb, loopVars, pending, calls, lastCall, hist>>

\* lines 199-200: the watchdog's sb.terminate() returns
TimeoutTerminate ==
    /\ pc = "tmo_terminate"
    /\ sb' = AfterTerminate(sb)
    /\ calls' = Append(calls, Call("terminate", "timeout", TRUE))
    /\ lastCall' = "terminate"
    /\ pc' = "tmo_wait"
    /\ UNCHANGED <<buildVars, loopVars, pending, hist>>

\* line 200 raises: no handler in the try statement takes an Exception
TimeoutTerminateFails ==
    /\ pc = "tmo_terminate"
    /\ calls' = Append(calls, Call("terminate", "timeout", FALSE))
    /\ lastCall' = "terminate_raised"
    /\ pending' = "terminate_timeout"
    /\ pc' = "finally"
    /\ UNCHANGED <<buildVars, sb, loopVars, hist>>

\* lines 202-203: sb.wait returns once the sandbox has finished
TimeoutWait ==
    /\ pc = "tmo_wait"
    /\ sb' = "exited"
    /\ calls' = Append(calls, Call(WaitOp, "timeout", TRUE))
    /\ lastCall' = "wait"
    /\ pc' = "tmo_done"
    /\ UNCHANGED <<buildVars, loopVars, pending, hist>>

\* lines 202, 204-205: sb.wait raises
TimeoutWaitFails ==
    /\ pc = "tmo_wait"
    /\ calls' = Append(calls, Call(WaitOp, "timeout", FALSE))
    /\ lastCall' = "wait_raised"
    /\ hist' = [hist EXCEPT !.warnings = @ \cup {"Error during timeout cleanup"}]
    /\ pc' = "tmo_done"
    /\ UNCHANGED <<buildVars, sb, loopVars, pending>>

\* lines 210-219
UpdateProgress ==
    /\ pc = "progress"
    /\ IF PbarTruthy(pbar)
       THEN /\ elapsed_time' = format_time(elapsed)
            /\ remaining_time' = format_time(timeout_seconds.val - elapsed)
            /\ pbar' = RefreshedPbar(pbar, args.timeout, elapsed, timeout_seconds)
       ELSE UNCHANGED <<pbar, shownVars>>
    /\ last_progress_update' = current_time
    /\ pc' = "sleep"
    /\ UNCHANGED <<buildVars, sb, clock, start_time, timeout_seconds,
                   current_time, elapsed, pending, calls, lastCall, hist>>

\* line 221: time.sleep(30) returns after 30 seconds, or later when the
\* process was held up
Sleep ==
    /\ pc = "sleep"
    /\ \E d \in {SleepSeconds, SlowSleep * SleepSeconds} :
         /\ clock + d <= MaxClock
         /\ clock' = clock + d
    /\ lastCall' = "sleep"
    /\ pc' = "loop_top"
    /\ UNCHANGED <<buildVars, sb, start_time, timeout_seconds, pbar,
                   last_progress_update, current_time, elapsed, shownVars,
                   pending, calls, hist>>

TryBlock ==
    {"loop_top", "poll", "poll_exited", "poll_lost", "check_timeout",
     "tmo_terminate", "tmo_wait", "tmo_done", "progress", "sleep"}

\* lines 223-225: the operator's interrupt arrives somewhere in the try block
\* (an interrupt inside the except clause or the finally block is not followed)
KeyboardInterrupt ==
    /\ pc \in TryBlock
    /\ hist' = [hist EXCEPT !.interrupted = TRUE]
    /\ pc' = "int_terminate"
    /\ UNCHANGED <<buildVars, sb, loopVars, pending, calls, lastCall>>

\* line 226
InterruptTerminate ==
    /\ pc = "int_terminate"
    /\ sb' = AfterTerminate(sb)
    /\ calls' = Append(calls, Call("terminate", "interrupt", TRUE))
    /\ lastCall' = "terminate"
    /\ pc' = "int_wait"
    /\ UNCHANGED <<buildVars, loopVars, pending, hist>>

\* line 226 raises inside the except clause
InterruptTerminateFails ==
    /\ pc = "int_terminate"
    /\ calls' = Append(calls, Call("terminate", "interrupt", FALSE))
    /\ lastCall' = "terminate_raised"
    /\ pending' = "terminate_interrupt"
    /\ pc' = "finally"
    /\ UNCHANGED <<buildVars, sb, loopVars, hist>>

\* lines 229-230
InterruptWait ==
    /\ pc = "int_wait"
    /\ sb' = "exited"
    /\ calls' = Append(calls, Call(WaitOp, "interrupt", TRUE))
    /\ lastCall' = "wait"
    /\ pc' = "finally"
    /\ UNCHANGED <<buildVars, loopVars, pending, hist>>

\* lines 229, 231-232
InterruptWaitFails ==
    /\ pc = "int_wait"
    /\ calls' = Append(calls, Call(WaitOp, "interrupt", FALSE))
    /\ lastCall' = "wait_raised"
    /\ hist' = [hist EXCEPT !.warnings = @ \cup {"Error during sandbox cleanup"}]
    /\ pc' = "finally"
    /\ UNCHANGED <<buildVars, sb, loopVars, pending>>

\* a safety net that terminates without looking at the poll result
FinallyPollUnguarded ==
    /\ pc = "finally"
    /\ lastCall' = IF IsNone(PollResult(sb)) THEN "poll_none" ELSE "poll_exited"
    /\ hist' = [hist EXCEPT !.cleanupRan = TRUE,
                            !.finalPoll = IF IsNone(PollResult(sb)) THEN "alive"
                                          ELSE "exited"]
    /\ pc' = "fin_terminate"
    /\ UNCHANGED <<buildVars, sb, loopVars, pending, calls>>

\* line 236: the safety net's sb.poll() returns
FinallyPoll ==
    /\ pc = "finally"
    /\ lastCall' = IF IsNone(PollResult(sb)) THEN "poll_none" ELSE "poll_exited"
    /\ hist' = [hist EXCEPT !.cleanupRan = TRUE,
                            !.finalPoll = IF IsNone(PollResult(sb)) THEN "alive"
                                          ELSE "exited"]
    /\ pc' = IF IsNone(PollResult(sb)) THEN "fin_terminate" ELSE "fin_pbar"
    /\ UNCHANGED <<buildVars, sb, loopVars, pending, calls>>

\* lines 236, 240-241
FinallyPollFails ==
    /\ pc = "finally"
    /\ lastCall' = "poll_raised"
    /\ hist' = [hist EXCEPT !.cleanupRan = TRUE, !.finalPoll = "raised",
                            !.warnings = @ \cup {"Error during final cleanup"}]
    /\ pc' = "fin_pbar"
    /\ UNCHANGED <<buildVars, sb, loopVars, pending, calls>>

\* lines 237-238
FinallyTerminate ==
    /\ pc = "fin_terminate"
    /\ sb' = AfterTerminate(sb)
    /\ calls' = Append(calls, Call("terminate", "finally", TRUE))
    /\ lastCall' = "terminate"
    /\ pc' = "fin_wait"
    /\ UNCHANGED <<buildVars, loopVars, pending, hist>>

\* lines 238, 240-241
FinallyTerminateFails ==
    /\ pc = "fin_terminate"
    /\ calls' = Append(calls, Call("terminate", "finally", FALSE))
    /\ lastCall' = "terminate_raised"
    /\ hist' = [hist EXCEPT !.warnings = @ \cup {"Error during final cleanup"}]
    /\ pc' = "fin_pbar"
    /\ UNCHANGED <<buildVars, sb, loopVars, pending>>

\* line 239
FinallyWait ==
    /\ pc = "fin_wait"
    /\ sb' = "exited"
    /\ calls' = Append(calls, Call(WaitOp, "finally", TRUE))
    /\ lastCall' = "wait"
    /\ pc' = "fin_pbar"
    /\ UNCHANGED <<buildVars, loopVars, pending, hist>>

\* lines 239-241
FinallyWaitFails ==
    /\ pc = "fin_wait"
    /\ calls' = Append(calls, Call(WaitOp, "finally", FALSE))
    /\ lastCall' = "wait_raised"
    /\ hist' = [hist EXCEPT !.warnings = @ \cup {"Error during final cleanup"}]
    /\ pc' = "fin_pbar"
    /\ UNCHANGED <<buildVars, sb, loopVars, pending>>

\* lines 244-245, then main returns or the pending exception goes on
ClosePbar ==
    /\ pc = "fin_pbar"
    /\ IF PbarTruthy(pbar)
       THEN pbar' = Some([pbar.val EXCEPT !.closed = TRUE])
       ELSE UNCHANGED pbar
    /\ pc' = IF pending = "none" THEN "done" ELSE "raised"
    /\ UNCHANGED <<buildVars, sb, clock, start_time, timeout_seconds,
                   last_progress_update, current_time, elapsed, shownVars,
                   pending, calls, lastCall, hist>>

\* the sandbox finishes on the platform's side: its own exit, the remote
\* timeout, or the end of a requested termination
SandboxExits ==
    /\ sb \in {"running", "terminating"}
    /\ pc \notin {"done", "raised"}
    /\ sb' = "exited"
    /\ UNCHANGED <<pc, buildVars, loopVars, pending, calls, lastCall, hist>>

Next ==
    \/ NextLaunch
    \/ InitLoop \/ LoopTop \/ Poll \/ PollFails \/ Break \/ CheckTimeout
    \/ TimeoutTerminate \/ TimeoutTerminateFails \/ TimeoutWait
    \/ TimeoutWaitFails \/ UpdateProgress \/ Sleep \/ KeyboardInterrupt
    \/ InterruptTerminate \/ InterruptTerminateFails \/ InterruptWait
    \/ InterruptWaitFails \/ FinallyPoll \/ FinallyPollFails
    \/ FinallyTerminate \/ FinallyTerminateFails \/ FinallyWait
    \/ FinallyWaitFails \/ ClosePbar \/ SandboxExits

Spec == Init /\ [][Next]_vars

\* the steps main takes itself: everything but the sandbox's own exit and
\* the operator's interrupt
MainStep ==
    \/ NextLaunch
    \/ InitLoop \/ LoopTop \/ Poll \/ PollFails \/ Break \/ CheckTimeout
    \/ TimeoutTerminate \/ TimeoutTerminateFails \/ TimeoutWait
    \/ TimeoutWaitFails \/ UpdateProgress \/ Sleep
    \/ InterruptTerminate \/ InterruptTerminateFails \/ InterruptWait
    \/ InterruptWaitFails \/ FinallyPoll \/ FinallyPollFails
    \/ FinallyTerminate \/ FinallyTerminateFails \/ FinallyWait
    \/ FinallyWaitFails \/ ClosePbar

\* main is one thread of sequential code: while it has a next statement it
\* executes it, and every call it makes comes back
SpecLive == Init /\ [][Next]_vars /\ WF_vars(MainStep)

(***************************************************************************)
(* format_time on its own, lines 161-165: one call per number of seconds.  *)
(***************************************************************************)
FormatInputs == 0 .. MaxSeconds \cup {35999, 36000, 359999, 360000}

InitFormat ==
    /\ args = Defaults
    /\ pc = "format_time"
    /\ elapsed \in FormatInputs
    /\ runtime_image = <<>>
    /\ mounts_list = <<>>
    /\ volume_config = EmptyDict
    /\ sb_kwargs = EmptyDict
    /\ sb = "uncreated"
    /\ clock = 0
    /\ start_time = 0
    /\ timeout_seconds = None
    /\ pbar = None
    /\ last_progress_update = 0
    /\ current_time = 0
    /\ elapsed_time = ""
    /\ remaining_time = ""
    /\ pending = "none"
    /\ calls = <<>>
    /\ lastCall = "none"
    /\ hist = NoHist

\* line 213: elapsed_time = format_time(elapsed)
FormatTime ==
    /\ pc = "format_time"
    /\ elapsed_time' = format_time(elapsed)
    /\ pc' = "formatted"
    /\ UNCHANGED <<buildVars, sb, clock, start_time, timeout_seconds, pbar,
                   last_progress_update, current_time, elapsed, remaining_time,
                   pending, calls, lastCall, hist>>

NextFormat == FormatTime

SpecFormat == InitFormat /\ [][NextFormat]_vars

(***************************************************************************)
(* Vocabulary of the properties.                                           *)
(***************************************************************************)
Ended == pc \in {"done", "raised"}

\* control has left the try statement of lines 181-232
LeftLoop == pc \in {"finally", "fin_terminate", "fin_wait", "fin_pbar"}
            \/ hist.cleanupRan

IsTerminate(c) == c.op = "terminate"
IsWait(c) == c.op = WaitOp
Accepted(c) == c.op = "terminate" /\ c.ok

TerminateCalls == SelectSeq(calls, IsTerminate)
AcceptedTerminates == SelectSeq(calls, Accepted)
WaitCalls == SelectSeq(calls, IsWait)

AtTerminateSite == pc \in {"tmo_terminate", "int_terminate", "fin_terminate"}

WaitFollows(i) == \E j \in DOMAIN calls : j > i /\ IsWait(calls[j])

WatchdogTried == \E i \in DOMAIN calls : IsTerminate(calls[i]) /\ calls[i].site = "timeout"

(***************************************************************************)
(* C1: in every run of main, whatever the interleaving of sandbox exit,    *)
(* timeout expiry and operator interrupt, at most one terminate request is *)
(* issued for the sandbox.                                                 *)
(***************************************************************************)
C1_AtMostOneTerminate == Len(AcceptedTerminates) <= 1

(***************************************************************************)
(* C2: each of the three termination call sites calls sb.terminate() only  *)
(* right after its own sb.poll() reported the sandbox running, and never   *)
(* on a sandbox that was already asked to terminate.                       *)
(***************************************************************************)
C2_TerminateOnlyAfterLivenessCheck ==
    AtTerminateSite => lastCall = "poll_none" /\ Len(AcceptedTerminates) = 0

(***************************************************************************)
(* C3: once control has left the supervisory loop, by the time main        *)
(* returns or raises the sandbox was observed as exited or it received a   *)
(* terminate request followed by a wait.                                   *)
(***************************************************************************)
ObservedExited ==
    \/ hist.sawExited
    \/ hist.finalPoll = "exited"
    \/ \E i \in DOMAIN calls : IsWait(calls[i]) /\ calls[i].ok

TerminatedThenWaited == \E i \in DOMAIN calls : IsTerminate(calls[i]) /\ WaitFollows(i)

C3_TerminatedWhenMainEnds ==
    (Ended /\ LeftLoop) => (ObservedExited \/ TerminatedThenWaited)

(***************************************************************************)
(* C4: with timeout = H > 0 the watchdog's terminate request is issued in  *)
(* an iteration whose elapsed time is >= H*3600 seconds, and no iteration  *)
(* that found the sandbox alive with elapsed >= H*3600 goes on to the      *)
(* progress update or the sleep: the first such iteration terminates.      *)
(***************************************************************************)
C4_WatchdogAtExpiryNotBefore ==
    args.timeout > 0 =>
        /\ (pc = "tmo_terminate" \/ WatchdogTried)
              => elapsed >= args.timeout * SecondsPerHour
        /\ pc \in {"progress", "sleep"} => elapsed < args.timeout * SecondsPerHour

\* the watchdog has asked for termination at exactly H*3600 seconds
C4_Witness ==
    /\ args.timeout > 0
    /\ pc = "tmo_wait"
    /\ elapsed = args.timeout * SecondsPerHour
    /\ Len(AcceptedTerminates) = 1

(***************************************************************************)
(* C5: with timeout = 0 the timeout path is never taken, whatever the      *)
(* elapsed time, no progress indicator is created or refreshed, and the    *)
(* loop is left only on sandbox exit, poll failure or interrupt.           *)
(***************************************************************************)
C5_NoWatchdogWithoutTimeout ==
    args.timeout = 0 =>
        /\ pc \notin {"tmo_terminate", "tmo_wait", "tmo_done", "progress"}
        /\ ~WatchdogTried
        /\ IsNone(pbar)
        /\ IsNone(timeout_seconds)
        /\ LeftLoop => (hist.sawExited \/ hist.pollFailed \/ hist.interrupted)

\* two hours into a session without timeout, the loop is still polling
C5_Witness ==
    /\ args.timeout = 0
    /\ pc = "sleep"
    /\ lastCall = "poll_none"
    /\ elapsed >= 2 * SecondsPerHour

(***************************************************************************)
(* C6: when the loop's liveness check reports the sandbox as exited, no    *)
(* terminate request at all is issued during the run.                      *)
(***************************************************************************)
C6_NoTerminateAfterExitSeen == hist.sawExited => Len(TerminateCalls) = 0

(***************************************************************************)
(* C7: main never ends with an exception because a cleanup call            *)
(* (sb.terminate or sb.wait) failed.                                       *)
(***************************************************************************)
C7_CleanupFailureNotRaised ==
    pc = "raised" => pending \notin {"terminate_timeout", "terminate_interrupt"}

(***************************************************************************)
(* C8: only a failure of the creation request or of the key file copy      *)
(* ends the program without the terminate-if-alive cleanup; after the      *)
(* sandbox exists every failure still reaches that cleanup.                *)
(***************************************************************************)
C8_CleanupAfterCreation ==
    (pc = "raised" /\ ~hist.cleanupRan)
        => (sb = "uncreated" /\ pending \in {"create", "add_local_file"})

(***************************************************************************)
(* C9: the creation request always carries the image and unencrypted port  *)
(* 22, and carries timeout (hours * 3600), gpu, volumes, cpu, memory       *)
(* (GB * 1024) and mounts exactly when the option is set; with gpu="H100", *)
(* volume="data", timeout=1 it has gpu "H100", volumes {"/vol/data": h}    *)
(* and timeout 3600.                                                       *)
(***************************************************************************)
Requested == \E i \in DOMAIN calls : calls[i].op = "create"

C9_CreationRequest ==
    Requested =>
        /\ {"app", "image", "unencrypted_ports"} \subseteq DOMAIN sb_kwargs
        /\ DOMAIN sb_kwargs \subseteq
             {"app", "image", "unencrypted_ports", "timeout", "gpu", "volumes",
              "cpu", "memory", "mounts"}
        /\ sb_kwargs["image"] = runtime_image
        /\ sb_kwargs["unencrypted_ports"] = <<22>>
        /\ ("timeout" \in DOMAIN sb_kwargs) <=> (args.timeout > 0)
        /\ args.timeout > 0 => sb_kwargs["timeout"] = args.timeout * 3600
        /\ ("gpu" \in DOMAIN sb_kwargs) <=> (args.gpu # "")
        /\ args.gpu # "" => sb_kwargs["gpu"] = args.gpu
        /\ ("volumes" \in DOMAIN sb_kwargs) <=> (DOMAIN volume_config # {})
        /\ DOMAIN volume_config # {} => sb_kwargs["volumes"] = volume_config
        /\ ("cpu" \in DOMAIN sb_kwargs) <=> (args.cpu > 0)
        /\ args.cpu > 0 => sb_kwargs["cpu"] = [float |-> args.cpu]
        /\ ("memory" \in DOMAIN sb_kwargs) <=> (args.memory > 0)
        /\ args.memory > 0 => sb_kwargs["memory"] = args.memory * 1024
        /\ ("mounts" \in DOMAIN sb_kwargs) <=> (mounts_list # <<>>)
        /\ mounts_list # <<>> => sb_kwargs["mounts"] = mounts_list
        /\ args = Defaults =>
             DOMAIN sb_kwargs = {"app", "image", "unencrypted_ports"}
        /\ (args.gpu = "H100" /\ args.volume = OptStr("data") /\ args.timeout = 1)
             => /\ sb_kwargs["gpu"] = "H100"
                /\ DOMAIN sb_kwargs["volumes"] = {"/vol/data"}
                /\ sb_kwargs["volumes"]["/vol/data"].name = "data"
                /\ sb_kwargs["timeout"] = 3600

\* the request of gpu="H100", volume="data", timeout=1 has been sent
C9_Witness ==
    /\ args = [Defaults EXCEPT !.gpu = "H100", !.volume = OptStr("data"),
                               !.timeout = 1]
    /\ pc = "exec"
    /\ sb = "running"

InLoopBody == pc \in {"loop_top", "poll", "poll_exited", "check_timeout",
                      "tmo_terminate", "tmo_wait", "tmo_done", "progress", "sleep"}

MountsDone ==
    pc \in {"volumes", "kwargs", "create", "exec", "tunnels", "ls", "init_loop"}

NonEmpty(cs) == cs # <<>>
Chars(cs) == {cs[i] : i \in DOMAIN cs}
MountsPrefix == <<"/", "m", "o", "u", "n", "t", "s", "/">>

\* n is the last component of the rendered path loc
IsFinalComponent(n, loc) ==
    IF loc \in {<<"/">>, <<".">>} THEN n = <<>>
    ELSE /\ n # <<>>
         /\ "/" \notin Chars(n)
         /\ Len(n) <= Len(loc)
         /\ SubSeq(loc, Len(loc) - Len(n) + 1, Len(loc)) = n
         /\ Len(n) = Len(loc) \/ loc[Len(loc) - Len(n)] = "/"

MountMatches(spec, m) ==
    IF ":" \in Chars(spec)
    THEN \E i \in DOMAIN spec :
            /\ spec[i] = ":"
            /\ \A j \in 1 .. i - 1 : spec[j] # ":"
            /\ m.remote_path = SubSeq(spec, i + 1, Len(spec))
            /\ m.local = PathStr(ExpandUser(PathOf(SubSeq(spec, 1, i - 1))))
    ELSE /\ m.local = PathStr(ExpandUser(PathOf(spec)))
         /\ Len(m.remote_path) >= Len(MountsPrefix)
         /\ SubSeq(m.remote_path, 1, Len(MountsPrefix)) = MountsPrefix
         /\ IsFinalComponent(SubSeq(m.remote_path, Len(MountsPrefix) + 1,
                                    Len(m.remote_path)), m.local)

C12_MountParsing ==
    MountsDone =>
        LET specs == SelectSeq(OptAsList(args.mount), NonEmpty)
        IN  /\ Len(mounts_list) = Len(specs)
            /\ \A k \in DOMAIN specs : MountMatches(specs[k], mounts_list[k])

\* "~/d", "" and "x:y:z" have become /h/d -> /mounts/d and x -> y:z
C12_Witness ==
    /\ pc = "volumes"
    /\ args.mount = OptList(<< <<"~", "/", "d">>, <<>>, <<"x", ":", "y", ":", "z">> >>)
    /\ mounts_list = <<[local |-> <<"/", "h", "/", "d">>,
                        remote_path |-> MountsPrefix \o <<"d">>],
                       [local |-> <<"x">>, remote_path |-> <<"y", ":", "z">>]>>

(***************************************************************************)
(* C13: the volume mapping has exactly one entry "/vol/<name>" per         *)
(* distinct non-empty name of the input (one string counting as a list of  *)
(* one); empty names give no entry, equal names give one entry bound to    *)
(* the handle obtained last, and every key is "/vol/<name>" for a name of  *)
(* the input.                                                              *)
(***************************************************************************)
VolumesDone == pc \in {"kwargs", "create", "exec", "tunnels", "ls", "init_loop"}

C13_VolumeMapping ==
    VolumesDone =>
        LET names == OptAsList(args.volume)
            given == {names[i] : i \in DOMAIN names} \ {""}
            last(n) == CHOOSE i \in DOMAIN names :
                          /\ names[i] = n
                          /\ \A j \in DOMAIN names : names[j] = n => j <= i
        IN  /\ DOMAIN volume_config = {"/vol/" \o n : n \in given}
            /\ Cardinality(DOMAIN volume_config) = Cardinality(given)
            /\ \A n \in given :
                  /\ volume_config["/vol/" \o n].name = n
                  /\ volume_config["/vol/" \o n].lookup = last(n)

\* "data", "", "data" has become one entry, bound to the third lookup
C13_Witness ==
    /\ pc = "kwargs"
    /\ args.volume = OptList(<<"data", "", "data">>)
    /\ DOMAIN volume_config = {"/vol/data"}
    /\ volume_config["/vol/data"] = [name |-> "data", lookup |-> 3]

(***************************************************************************)
(* C14: for every non-negative whole number of seconds s, format_time(s)   *)
(* is s div 3600 zero-padded to two digits, a colon, and (s mod 3600)      *)
(* div 60 zero-padded to two digits; format_time(0) = "00:00" and          *)
(* format_time(3661) = "01:01".                                            *)
(***************************************************************************)
Digit(d) ==
    CASE d = 0 -> "0" [] d = 1 -> "1" [] d = 2 -> "2" [] d = 3 -> "3"
      [] d = 4 -> "4" [] d = 5 -> "5" [] d = 6 -> "6" [] d = 7 -> "7"
      [] d = 8 -> "8" [] d = 9 -> "9"

RECURSIVE Decimal(_)
Decimal(n) == IF n < 10 THEN Digit(n) ELSE Decimal(n \div 10) \o Digit(n % 10)

ZeroPadded2(n) == IF n < 10 THEN "0" \o Digit(n) ELSE Decimal(n)

C14_FormatTime ==
    pc = "formatted" =>
        /\ elapsed_time = ZeroPadded2(elapsed \div 3600) \o ":"
                          \o ZeroPadded2((elapsed % 3600) \div 60)
        /\ elapsed = 0 => elapsed_time = "00:00"
        /\ elapsed = 3661 => elapsed_time = "01:01"

\* format_time(3661) has been computed
C14_Witness == pc = "formatted" /\ elapsed = 3661 /\ elapsed_time = "01:01"

(***************************************************************************)
(* C15: with timeout = H > 0 and platform calls that return, main          *)
(* eventually returns; the loop is left only on sandbox exit, poll         *)
(* failure, timeout expiry or interrupt, no iteration that finds the       *)
(* timeout elapsed goes on to sleep, and when main returns after calls     *)
(* that all came back normally the sandbox has finished.  (The run is      *)
(* followed up to MaxClock seconds, so H * 3600 <= MaxClock.)              *)
(***************************************************************************)
CallFailed ==
    \/ pending # "none"
    \/ hist.pollFailed
    \/ hist.finalPoll = "raised"
    \/ \E i \in DOMAIN calls : ~calls[i].ok

LoopLeftForCause ==
    LeftLoop => (hist.sawExited \/ hist.pollFailed \/ hist.interrupted
                 \/ WatchdogTried)

NoSleepPastTimeout ==
    (args.timeout > 0 /\ pc = "sleep") => elapsed < args.timeout * SecondsPerHour

FinishedWhenReturned == (pc = "done" /\ ~CallFailed) => sb = "exited"

ReturnedIfTimeoutSet ==
    (args.timeout > 0 /\ args.timeout * SecondsPerHour <= MaxClock)
        => (pc = "done" \/ CallFailed)

C15_MainEventuallyReturns ==
    /\ []LoopLeftForCause
    /\ []NoSleepPastTimeout
    /\ []FinishedWhenReturned
    /\ <>ReturnedIfTimeoutSet

\* main has returned after the watchdog fired, no call having failed
C15_Witness ==
    /\ args.timeout > 0
    /\ pc = "done"
    /\ ~CallFailed
    /\ ~hist.interrupted
    /\ ~hist.sawExited
    /\ WatchdogTried
    /\ sb = "exited"

(***************************************************************************)
(* C16: the sandbox goes UNCREATED -> RUNNING -> (TERMINATING) ->          *)
(* TERMINATED in that order only: an invocation makes one creation request *)
(* when it reaches line 146 and never a second one, no other call on the   *)
(* sandbox is made before the creation request has succeeded, the state    *)
(* never moves backwards, and the terminal state is never left again.      *)
(***************************************************************************)
IsCreate(c) == c.op = "create"

BeforeCreate == pc \in {"start", "mounts", "volumes", "kwargs", "create"}

CreatedFirst ==
    /\ Len(SelectSeq(calls, IsCreate)) <= 1
    /\ BeforeCreate => calls = <<>>
    /\ (~BeforeCreate /\ pending # "add_local_file")
          => (calls # <<>> /\ IsCreate(calls[1]))
    /\ sb = "uncreated"
          => /\ \A i \in DOMAIN calls : IsCreate(calls[i]) /\ ~calls[i].ok
             /\ lastCall \in {"none", "create_raised"}
             /\ pc \in {"start", "mounts", "volumes", "kwargs", "create", "raised"}
    /\ sb # "uncreated" => calls[1] = Call("create", "launch", TRUE)
    /\ sb = "terminating" => Len(AcceptedTerminates) >= 1

LifecycleStep ==
    \/ sb' = sb
    \/ sb = "uncreated" /\ sb' = "running"
    \/ sb = "running" /\ sb' \in {"terminating", "exited"}
    \/ sb = "terminating" /\ sb' = "exited"

Refreshed ==
    /\ ~IsNone(pbar)
    /\ ~IsNone(pbar')
    /\ pbar'.val.refreshes # pbar.val.refreshes

RefreshStep ==
    /\ Refreshed =>
          /\ pc = "progress"
          /\ args.timeout > 0
          /\ ~IsNone(timeout_seconds)
          /\ current_time - last_progress_update >= 600
          /\ last_progress_update' = current_time
          /\ pbar'.val.refreshes = pbar.val.refreshes + 1
    /\ last_progress_update' # last_progress_update => Refreshed

C17_RefreshSpacing == [][RefreshStep]_vars

\* the indicator has just been refreshed for at least the second time
C17_Witness ==
    /\ pc = "sleep"
    /\ ~IsNone(pbar)
    /\ pbar.val.refreshes >= 2
    /\ last_progress_update = current_time
    /\ current_time >= 2 * ProgressInterval

(***************************************************************************)
(* C18: whenever the progress indicator is refreshed, the elapsed time is  *)
(* strictly less than timeout_seconds, so the remaining time shown comes   *)
(* from a positive number of seconds and the bar position pbar.n =         *)
(* elapsed div 60 is strictly less than its total timeout_seconds div 60.  *)
(***************************************************************************)
\* the refresh of this iteration has been done
JustRefreshed ==
    /\ pc = "sleep"
    /\ ~IsNone(pbar)
    /\ pbar.val.refreshes > 0
    /\ last_progress_update = current_time

C18_RefreshBeforeTimeout ==
    /\ pc = "progress" =>
          /\ ~IsNone(timeout_seconds)
          /\ elapsed < timeout_seconds.val
    /\ JustRefreshed =>
          /\ elapsed < timeout_seconds.val
          /\ timeout_seconds.val - elapsed > 0
          /\ remaining_time = format_time(timeout_seconds.val - elapsed)
          /\ pbar.val.n = elapsed \div 60
          /\ pbar.val.total = timeout_seconds.val \div 60
    /\ ~IsNone(pbar) => pbar.val.n < pbar.val.total

\* the last refresh that fits before the timeout
C18_Witness ==
    /\ JustRefreshed
    /\ timeout_seconds.val - elapsed <= ProgressInterval
    /\ pbar.val.n >= pbar.val.total - 10

====
